---- MODULE Spec2Model ----
(***************************************************************************)
(* Pipeline orchestrator of app/orchestrator/workflow.py together with the *)
(* run-control routes of app/runs/routes.py, for one run.                  *)
(*                                                                         *)
(* One execution (execute_run or continue_run) is a sequence of steps: a   *)
(* stage node is split at the await of its executor (NodeEnter commits the *)
(* stage label, NodeFinish handles the executor's outcome), and the wait   *)
(* nodes, the conditional edge, the complete node and the final status     *)
(* update of execute_run are one step each.  submit_approval and pause_run *)
(* are synchronous routes and may land between any two steps.              *)
(***************************************************************************)
EXTENDS Integers, Sequences, FiniteSets, TLC

VARIABLES run, artifacts, approvals, exec, nEvents, nExec, nDecides, nFaults,
          call, other, pend, run_updates, tail

vars == <<run, artifacts, approvals, exec, nEvents, nExec, nDecides, nFaults,
          call, other, pend, run_updates, tail>>

----------------------------------------------------------------------------
(* Bounds of the model *)

MaxExec == 4

MaxDecides == 1

MaxFaults == 1

MaxInFlight == 2

MaxOverlapExec == 2

MaxEmits == 5

----------------------------------------------------------------------------
(* Vocabulary *)

StageOrder == <<"research", "epics", "stories", "specs", "code", "validation">>

ArtifactType == {StageOrder[i] : i \in 1..Len(StageOrder)}

valid_stages == {"epics", "stories", "specs"}

valid_actions == {"proceed", "regenerate", "reject"}

(* Decisions a reviewer may submit: the documented three, a regenerate      *)
(* without feedback text, an approval that carries action=regenerate, and  *)
(* an approval whose action is omitted (written "").                       *)
Decisions ==
    {[approved |-> TRUE, feedback |-> "", action |-> "proceed"],
     [approved |-> TRUE, feedback |-> "", action |-> ""],
     [approved |-> FALSE, feedback |-> "fb", action |-> "regenerate"],
     [approved |-> FALSE, feedback |-> "", action |-> "regenerate"],
     [approved |-> FALSE, feedback |-> "fb", action |-> "reject"],
     [approved |-> TRUE, feedback |-> "fb", action |-> "regenerate"]}

(* The two decisions that reviewers submit at the same time *)
ConcurrentDecisions ==
    {[approved |-> TRUE, feedback |-> "", action |-> "proceed"],
     [approved |-> FALSE, feedback |-> "fb", action |-> "regenerate"]}

(* Requests the approval route refuses: a stage that has no gate, and an    *)
(* action outside the three.                                               *)
InvalidRequests ==
    {[stage |-> "code", approved |-> TRUE, feedback |-> "", action |-> "proceed"],
     [stage |-> "epics", approved |-> TRUE, feedback |-> "", action |-> "approve"],
     [stage |-> "research", approved |-> FALSE, feedback |-> "fb",
      action |-> "retry"]}

FromStages == valid_stages \cup {"code"}

Outcomes == {"ok", "fail", "raise", "savefail"}

WaitStage(s) ==
    CASE s = "epics" -> "waiting_epic_approval"
      [] s = "stories" -> "waiting_story_approval"
      [] s = "specs" -> "waiting_spec_approval"
      [] OTHER -> ""

NextStage(s) ==
    CASE s = "research" -> "epics"
      [] s = "epics" -> "stories"
      [] s = "stories" -> "specs"
      [] s = "specs" -> "code"
      [] s = "code" -> "validation"
      [] OTHER -> ""

NoContent == [k |-> "", n |-> 0]

Generated(n) == [k |-> "gen", n |-> n]

FallbackStub == [k |-> "stub", n |-> 0]

ExceptionStub == [k |-> "errstub", n |-> 0]

Pc(p, s) == [p |-> p, s |-> s]

Idle == Pc("idle", "")

----------------------------------------------------------------------------
(* Artifact store and approval rows *)

NoMeta == [fallback |-> FALSE, error |-> "", exception |-> ""]

(* Variant: the fallback artifact is written without the fallback flag *)
FallbackMeta_NoFlag(error_msg) ==
    [fallback |-> FALSE, error |-> error_msg, exception |-> ""]

FallbackMeta(error_msg) == [fallback |-> TRUE, error |-> error_msg, exception |-> ""]

ExceptionMeta(e) == [fallback |-> TRUE, error |-> "", exception |-> e]

(* Variant: a new output replaces the latest row of the same type *)
SaveArtifact_Overwrite(arts, type, content, meta) ==
    LET idx == {i \in 1..Len(arts) : arts[i].type = type}
    IN  IF idx = {}
        THEN Append(arts, [type |-> type, content |-> content, meta |-> meta])
        ELSE [arts EXCEPT ![CHOOSE i \in idx : \A j \in idx : j <= i] =
                [type |-> type, content |-> content, meta |-> meta]]

SaveArtifact(arts, type, content, meta) ==
    Append(arts, [type |-> type, content |-> content, meta |-> meta])

CountType(arts, type) ==
    Cardinality({i \in 1..Len(arts) : arts[i].type = type})

RowsOf(apps, stage) == {i \in 1..Len(apps) : apps[i].stage = stage}

HasRow(apps, stage) == RowsOf(apps, stage) # {}

FirstIdx(apps, stage) ==
    CHOOSE i \in RowsOf(apps, stage) : \A j \in RowsOf(apps, stage) : i <= j

FirstRow(apps, stage) == apps[FirstIdx(apps, stage)]

Pending(apps, stage) ==
    HasRow(apps, stage) /\ FirstRow(apps, stage).approved = "unset"

NewApproval(stage, approved, feedback, action) ==
    [stage |-> stage, approved |-> approved, feedback |-> feedback,
     action |-> action]

(* Variant: an existing row is left as it was decided (this is what        *)
(* _create_approval does)                                                  *)
CreateOrUpdateApproval_NoReset(apps, stage) ==
    IF HasRow(apps, stage)
    THEN apps
    ELSE Append(apps, NewApproval(stage, "unset", "", "proceed"))

(* Variant: the reset also wipes the reviewer's feedback text *)
CreateOrUpdateApproval_ClearFeedback(apps, stage) ==
    IF HasRow(apps, stage)
    THEN [apps EXCEPT ![FirstIdx(apps, stage)].approved = "unset",
                      ![FirstIdx(apps, stage)].action = "proceed",
                      ![FirstIdx(apps, stage)].feedback = ""]
    ELSE Append(apps, NewApproval(stage, "unset", "", "proceed"))

CreateOrUpdateApproval(apps, stage) ==
    IF HasRow(apps, stage)
    THEN [apps EXCEPT ![FirstIdx(apps, stage)].approved = "unset",
                      ![FirstIdx(apps, stage)].action = "proceed"]
    ELSE Append(apps, NewApproval(stage, "unset", "", "proceed"))

CheckApproval(apps, current_stage) ==
    LET stage == CASE current_stage = "waiting_epic_approval" -> "epics"
                   [] current_stage = "waiting_story_approval" -> "stories"
                   [] current_stage = "waiting_spec_approval" -> "specs"
                   [] OTHER -> ""
    IN  IF stage = "" THEN "pending"
        ELSE IF ~HasRow(apps, stage) \/ FirstRow(apps, stage).approved = "unset"
             THEN "pending"
        ELSE IF FirstRow(apps, stage).approved = "true" THEN "approved"
        ELSE "rejected"

(* Variant: the first artifact of a type wins *)
LatestContent_First(arts, type) ==
    LET idx == {i \in 1..Len(arts) : arts[i].type = type}
    IN  IF idx = {} THEN NoContent
        ELSE arts[CHOOSE i \in idx : \A j \in idx : i <= j].content

LatestContent(arts, type) ==
    LET idx == {i \in 1..Len(arts) : arts[i].type = type}
    IN  IF idx = {} THEN NoContent
        ELSE arts[CHOOSE i \in idx : \A j \in idx : j <= i].content

----------------------------------------------------------------------------
(* In-memory WorkflowState *)

InitialWorkflowState ==
    [content |-> [t \in ArtifactType |-> NoContent],
     current_stage |-> "initialized",
     error |-> "",
     regen |-> [s \in valid_stages |-> 0],
     feedback |-> "",
     regeneration_count |-> 0]

(* Variant: the counters are derived from the artifacts already stored *)
ReconstructedWorkflowState_KeepCounters(arts, from_stage) ==
    [content |-> [t \in ArtifactType |-> LatestContent(arts, t)],
     current_stage |-> from_stage,
     error |-> "",
     regen |-> [s \in valid_stages |->
                  IF CountType(arts, s) > 0 THEN CountType(arts, s) - 1 ELSE 0],
     feedback |-> "",
     regeneration_count |-> 0]

ReconstructedWorkflowState(arts, from_stage) ==
    [content |-> [t \in ArtifactType |-> LatestContent(arts, t)],
     current_stage |-> from_stage,
     error |-> "",
     regen |-> [s \in valid_stages |-> 0],
     feedback |-> "",
     regeneration_count |-> 0]

NoRow == NewApproval("", "absent", "", "")

RowOrNone(apps, stage) ==
    IF HasRow(apps, stage) THEN FirstRow(apps, stage) ELSE NoRow

(* What a call of Start or Resume found when it was made *)
Snapshot(from_stage) ==
    [status |-> run.status, stage |-> run.current_stage,
     narts |-> Len(artifacts), row |-> RowOrNone(approvals, from_stage)]

(* No call on record: nothing was called yet, or a decision or a pause     *)
(* arrived since the call on record was made.                              *)
NoCall ==
    [op |-> "none", from |-> "",
     pre |-> [status |-> "", stage |-> "", narts |-> 0, row |-> NoRow],
     kinds |-> {}, again |-> FALSE, quiet |-> FALSE]

----------------------------------------------------------------------------
(* A run as create_run leaves it, and the three states in which the        *)
(* orchestrator leaves a run suspended at a gate when every executor so    *)
(* far succeeded and every earlier gate was approved with action=proceed.  *)
(* Contents written before Init carry the numbers 0, -1, -2, ... so that   *)
(* every generated content stays distinct; nExec, nDecides, nFaults and    *)
(* nEvents count from Init.                                                *)
InitPositions == {"pending", "epics", "stories", "specs"}

Passed(g) ==
    CASE g = "epics" -> <<"research", "epics">>
      [] g = "stories" -> <<"research", "epics", "stories">>
      [] g = "specs" -> <<"research", "epics", "stories", "specs">>
      [] OTHER -> <<>>

ArtifactsAt(g) ==
    [i \in 1..Len(Passed(g)) |->
       [type |-> Passed(g)[i], content |-> Generated(i - Len(Passed(g))),
        meta |-> NoMeta]]

ApprovalsAt(g) ==
    [i \in 1..(Len(Passed(g)) - 1) |->
       IF Passed(g)[i + 1] = g
       THEN NewApproval(g, "unset", "", "proceed")
       ELSE NewApproval(Passed(g)[i + 1], "true", "", "proceed")]

RunAt(g) ==
    IF g = "pending"
    THEN [status |-> "pending", current_stage |-> "", error_message |-> "",
          started_at |-> FALSE, completed_at |-> FALSE]
    ELSE [status |-> "paused", current_stage |-> WaitStage(g),
          error_message |-> "", started_at |-> TRUE, completed_at |-> FALSE]

Init ==
    /\ \E g \in InitPositions :
         /\ run = RunAt(g)
         /\ artifacts = ArtifactsAt(g)
         /\ approvals = ApprovalsAt(g)
    /\ exec = [pc |-> Idle, mode |-> "none", ws |-> InitialWorkflowState]
    /\ nEvents = 0
    /\ nExec = 0
    /\ nDecides = 0
    /\ nFaults = 0
    /\ call = NoCall
    /\ other = [pc |-> Idle, mode |-> "none", ws |-> InitialWorkflowState]
    /\ pend = <<>>
    /\ run_updates = <<>>
    /\ tail = [last_index |-> 0, received |-> <<>>]

(* The same program started from a freshly created run only *)
InitPending ==
    /\ run = RunAt("pending")
    /\ artifacts = <<>>
    /\ approvals = <<>>
    /\ exec = [pc |-> Idle, mode |-> "none", ws |-> InitialWorkflowState]
    /\ nEvents = 0
    /\ nExec = 0
    /\ nDecides = 0
    /\ nFaults = 0
    /\ call = NoCall
    /\ other = [pc |-> Idle, mode |-> "none", ws |-> InitialWorkflowState]
    /\ pend = <<>>
    /\ run_updates = <<>>
    /\ tail = [last_index |-> 0, received |-> <<>>]

----------------------------------------------------------------------------
(* Stage nodes *)

IsRegeneration(apps, s) ==
    /\ s \in valid_stages
    /\ HasRow(apps, s)
    /\ FirstRow(apps, s).action = "regenerate"
    /\ FirstRow(apps, s).feedback # ""

SetsRunning(s) == s \in {"stories", "specs", "code"}

(* Variant: the validation node is wired to the end of the graph *)
AfterNode_SkipComplete(s) ==
    CASE s = "research" -> Pc("enter", "epics")
      [] s \in valid_stages -> Pc("wait", s)
      [] s = "code" -> Pc("enter", "validation")
      [] OTHER -> Pc("finalize", "")

AfterNode(s) ==
    CASE s = "research" -> Pc("enter", "epics")
      [] s \in valid_stages -> Pc("wait", s)
      [] s = "code" -> Pc("enter", "validation")
      [] OTHER -> Pc("complete", "")

(* Variant: a stage node never touches the approval rows *)
GateIfGated_Skip(apps, s) == apps

(* Variant: every stage node opens a gate *)
GateIfGated_Every(apps, s) == CreateOrUpdateApproval(apps, s)

GateIfGated(apps, s) ==
    IF s \in valid_stages THEN CreateOrUpdateApproval(apps, s) ELSE apps

(* What a stage node does once its executor has answered with outcome o:   *)
(* the new WorkflowState, artifact list and approval rows.                 *)
NodeResult(ws, arts, apps, s, o, n) ==
    CASE o = "ok" ->
           [ws |-> [ws EXCEPT !.content[s] = Generated(n), !.current_stage = s],
            arts |-> SaveArtifact(arts, s, Generated(n), NoMeta),
            apps |-> GateIfGated(apps, s)]
      [] o = "fail" ->
           [ws |-> [ws EXCEPT !.error = "agent_error",
                              !.content[s] = FallbackStub,
                              !.current_stage = s],
            arts |-> SaveArtifact(arts, s, FallbackStub,
                                  FallbackMeta("agent_error")),
            apps |-> GateIfGated(apps, s)]
      [] o = "raise" ->
           IF ws.content[s] = NoContent
           THEN [ws |-> [ws EXCEPT !.error = "node_exception",
                                   !.content[s] = ExceptionStub,
                                   !.current_stage = s],
                 arts |-> SaveArtifact(arts, s, ExceptionStub,
                                       ExceptionMeta("node_exception")),
                 apps |-> GateIfGated(apps, s)]
           ELSE [ws |-> [ws EXCEPT !.error = "node_exception"],
                 arts |-> arts, apps |-> apps]
      [] OTHER ->
           [ws |-> [ws EXCEPT !.content[s] = Generated(n),
                              !.current_stage = s,
                              !.error = "node_exception"],
            arts |-> arts, apps |-> apps]

(* The stage whose content a node hands to its executor; research gets    *)
(* the product request only.                                               *)
Prerequisite(s) ==
    CASE s = "epics" -> "research"
      [] s = "stories" -> "epics"
      [] s = "specs" -> "stories"
      [] s = "code" -> "specs"
      [] s = "validation" -> "code"
      [] OTHER -> ""

ExecutorInput(ws, s) == ws.content[Prerequisite(s)]

Returned == [pc |-> Idle, mode |-> "none", ws |-> InitialWorkflowState]

(* Variant: the node does not write the stage before it calls the executor *)
StageRecorded_NoStage(r, s) ==
    [r EXCEPT !.status = IF SetsRunning(s) THEN "running" ELSE @]

(* The Run row as a stage node commits it before it calls its executor *)
StageRecorded(r, s) ==
    [r EXCEPT !.current_stage = s,
              !.status = IF SetsRunning(s) THEN "running" ELSE @]

NodeEnterStep(s) ==
    /\ exec.pc = Pc("enter", s)
    /\ LET regen == IsRegeneration(approvals, s)
           cnt == IF regen THEN exec.ws.regen[s] + 1 ELSE 0
           fb == IF regen THEN FirstRow(approvals, s).feedback ELSE ""
       IN  exec' = [exec EXCEPT !.pc = Pc("exec", s),
                                !.ws.regen = IF regen THEN [@ EXCEPT ![s] = cnt]
                                             ELSE @,
                                !.ws.feedback = fb,
                                !.ws.regeneration_count = cnt]
    /\ run' = StageRecorded(run, s)
    /\ nEvents' = nEvents + 1
    /\ nExec' = nExec + 1
    /\ UNCHANGED <<artifacts, approvals, nDecides, call, nFaults, other, pend, run_updates, tail>>

NodeEnter(s) == nExec < MaxExec /\ NodeEnterStep(s)

NodeFinish(s, o) ==
    /\ exec.pc = Pc("exec", s)
    /\ o # "ok" => nFaults < MaxFaults
    /\ nFaults' = IF o = "ok" THEN nFaults ELSE nFaults + 1
    /\ LET r == NodeResult(exec.ws, artifacts, approvals, s, o, nExec)
       IN  /\ exec' = [exec EXCEPT !.pc = AfterNode(s), !.ws = r.ws]
           /\ artifacts' = r.arts
           /\ approvals' = r.apps
    /\ nEvents' = nEvents + 1
    /\ call' = IF call.op = "none" \/ o = "ok" THEN call
               ELSE [call EXCEPT !.kinds = @ \cup {o}]
    /\ UNCHANGED <<run, nExec, nDecides, other, pend, run_updates, tail>>

(* Variant: the wait node leaves the run running *)
WaitStatus_Running == "running"

WaitStatus == "paused"

(* Variant: Resume goes on to the gate's conditional edge as Start does *)
WaitNode_AlwaysCheck(s) ==
    /\ exec.pc = Pc("wait", s)
    /\ run' = [run EXCEPT !.current_stage = WaitStage(s),
                          !.status = WaitStatus]
    /\ nEvents' = nEvents + 1
    /\ exec' = [exec EXCEPT !.pc = Pc("check", s),
                            !.ws.current_stage = WaitStage(s)]
    /\ UNCHANGED call
    /\ UNCHANGED <<artifacts, approvals, nExec, nDecides, nFaults, other, pend,
                   run_updates, tail>>

WaitNode(s) ==
    /\ exec.pc = Pc("wait", s)
    /\ run' = [run EXCEPT !.current_stage = WaitStage(s),
                          !.status = WaitStatus]
    /\ nEvents' = nEvents + 1
    /\ IF exec.mode = "start"
       THEN /\ exec' = [exec EXCEPT !.pc = Pc("check", s),
                                    !.ws.current_stage = WaitStage(s)]
            /\ UNCHANGED call
       ELSE /\ exec' = Returned
            /\ call' = IF call.op = "none" THEN call ELSE [call EXCEPT !.quiet = TRUE]
    /\ UNCHANGED <<artifacts, approvals, nExec, nDecides, nFaults, other, pend, run_updates, tail>>

RouteTarget(route, s) ==
    CASE route = "approved" -> Pc("enter", NextStage(s))
      [] route = "rejected" -> Pc("enter", s)
      [] OTHER -> Pc("finalize", "")

ConditionalEdge(s) ==
    /\ exec.pc = Pc("check", s)
    /\ exec' = [exec EXCEPT !.pc =
                  RouteTarget(CheckApproval(approvals, exec.ws.current_stage), s)]
    /\ UNCHANGED <<run, artifacts, approvals, nEvents, nExec, nDecides, call, nFaults, other, pend, run_updates, tail>>

(* What the except handlers of execute_run and continue_run write: the     *)
(* message is str(e) of the database error that was raised.                *)
RaisedStatus(r, msg) == [r EXCEPT !.status = "failed", !.error_message = msg]

RaisedCall == [call EXCEPT !.op = "raised", !.kinds = @ \cup {"dbfail"},
                           !.quiet = TRUE]

(* _check_approval has no except clause: a database error in its query     *)
(* leaves workflow.ainvoke and lands in the except handler of execute_run. *)
CheckApprovalRaises(s) ==
    /\ exec.pc = Pc("check", s)
    /\ nFaults < MaxFaults
    /\ nFaults' = nFaults + 1
    /\ run' = RaisedStatus(run, "db_error")
    /\ exec' = Returned
    /\ call' = IF call.op = "none" THEN call ELSE RaisedCall
    /\ UNCHANGED <<artifacts, approvals, nEvents, nExec, nDecides, other, pend, run_updates, tail>>

CompleteNode ==
    /\ exec.pc = Pc("complete", "")
    /\ run' = [run EXCEPT !.status = "completed",
                          !.current_stage = "completed",
                          !.completed_at = TRUE]
    /\ nEvents' = nEvents + 1
    /\ IF exec.mode = "start"
       THEN /\ exec' = [exec EXCEPT !.pc = Pc("finalize", ""),
                                    !.ws.current_stage = "completed"]
            /\ UNCHANGED call
       ELSE /\ exec' = Returned
            /\ call' = IF call.op = "none" THEN call ELSE [call EXCEPT !.quiet = TRUE]
    /\ UNCHANGED <<artifacts, approvals, nExec, nDecides, nFaults, other, pend, run_updates, tail>>

----------------------------------------------------------------------------
(* execute_run and continue_run *)

(* Variant: Start is accepted whatever the status *)
StartableStatus_Any == {"pending", "running", "paused", "completed", "failed"}

StartableStatus == {"pending", "paused"}

StartRun ==
    /\ exec.pc = Idle
    /\ run.status \in StartableStatus
    /\ call' = [op |-> "start", from |-> "", pre |-> Snapshot(""), kinds |-> {},
                again |-> FALSE, quiet |-> FALSE]
    /\ run' = [run EXCEPT !.status = "running", !.started_at = TRUE,
                          !.current_stage = "research"]
    /\ nEvents' = nEvents + 1
    /\ exec' = [exec EXCEPT !.pc = Pc("scheduled", "")]
    /\ UNCHANGED <<artifacts, approvals, nExec, nDecides, nFaults, other, pend, run_updates, tail>>

ExecuteRun ==
    /\ exec.pc = Pc("scheduled", "")
    /\ run' = [run EXCEPT !.status = "running", !.current_stage = "research"]
    /\ exec' = [pc |-> Pc("enter", "research"), mode |-> "start",
                ws |-> InitialWorkflowState]
    /\ UNCHANGED <<artifacts, approvals, nEvents, nExec, nDecides, call, nFaults, other, pend, run_updates, tail>>

(* Variant: the run is marked failed but the error text is not stored *)
FinalStatus_NoMessage(r, ws) ==
    IF ws.error # "" THEN [r EXCEPT !.status = "failed"] ELSE r

FinalStatus(r, ws) ==
    IF ws.error # ""
    THEN [r EXCEPT !.status = "failed", !.error_message = ws.error]
    ELSE r

ExecuteRunFinish ==
    /\ exec.pc = Pc("finalize", "")
    /\ run' = FinalStatus(run, exec.ws)
    /\ exec' = Returned
    /\ call' = IF call.op = "none" THEN call ELSE [call EXCEPT !.quiet = TRUE]
    /\ UNCHANGED <<artifacts, approvals, nEvents, nExec, nDecides, nFaults, other, pend, run_updates, tail>>

(* Variant: an approved gate re-runs its own stage *)
ContinueTarget_SameStage(apps, from_stage) ==
    IF from_stage \in valid_stages /\ HasRow(apps, from_stage)
    THEN IF FirstRow(apps, from_stage).action = "regenerate"
              \/ FirstRow(apps, from_stage).approved = "true"
         THEN Pc("enter", from_stage)
         ELSE Idle
    ELSE Idle

ContinueTarget(apps, from_stage) ==
    IF from_stage \in valid_stages /\ HasRow(apps, from_stage)
    THEN IF FirstRow(apps, from_stage).action = "regenerate"
         THEN Pc("enter", from_stage)
         ELSE IF FirstRow(apps, from_stage).approved = "true"
              THEN Pc("enter", NextStage(from_stage))
              ELSE Idle
    ELSE Idle

ContinueRun(from_stage) ==
    /\ exec.pc = Idle
    /\ LET target == ContinueTarget(approvals, from_stage)
       IN  /\ exec' = IF target = Idle THEN Returned
                      ELSE [pc |-> target, mode |-> "resume",
                            ws |-> ReconstructedWorkflowState(artifacts,
                                                              from_stage)]
           /\ call' = [op |-> "resume", from |-> from_stage,
                       pre |-> Snapshot(from_stage),
                       kinds |-> {},
                       again |-> (call.op = "resume" /\ call.from = from_stage
                                  /\ call.quiet),
                       quiet |-> (target = Idle)]
    /\ run' = [run EXCEPT !.status = "running"]
    /\ UNCHANGED <<artifacts, approvals, nEvents, nExec, nDecides, nFaults, other, pend, run_updates, tail>>

(* The approval query of continue_run raises a database error after the    *)
(* status was committed as running: the except handler marks the run       *)
(* failed and re-raises.                                                   *)
ContinueRunRaises(from_stage) ==
    /\ exec.pc = Idle
    /\ from_stage \in valid_stages
    /\ nFaults < MaxFaults
    /\ nFaults' = nFaults + 1
    /\ run' = RaisedStatus(run, "db_error")
    /\ exec' = Returned
    /\ call' = [op |-> "raised", from |-> from_stage,
                pre |-> Snapshot(from_stage), kinds |-> {"dbfail"},
                again |-> FALSE, quiet |-> TRUE]
    /\ UNCHANGED <<artifacts, approvals, nEvents, nExec, nDecides, other, pend, run_updates, tail>>

----------------------------------------------------------------------------
(* Routes that may land between the steps of an execution *)

Decided(approved) == IF approved THEN "true" ELSE "false"

(* Variant: any action string passes the schema *)
ActionAccepted_Any(v) == TRUE

ActionAccepted(v) == v = "" \/ v \in valid_actions

(* Variant: the action is stored as it was sent *)
ValidateAction_Keep(v) == v

ValidateAction(v) == IF v = "" THEN "proceed" ELSE v

(* Variant: every submission adds a row *)
SubmitApproval_AlwaysInsert(stage, approved, feedback, action) ==
    /\ nDecides < MaxDecides
    /\ approvals' =
         Append(approvals, NewApproval(stage, Decided(approved), feedback,
                                       ValidateAction(action)))
    /\ nEvents' = nEvents + 1
    /\ nDecides' = nDecides + 1
    /\ call' = NoCall
    /\ UNCHANGED <<run, artifacts, exec, nExec, nFaults, other, pend, run_updates, tail>>

SubmitApprovalStep(stage, approved, feedback, action) ==
    /\ approvals' =
         IF HasRow(approvals, stage)
         THEN [approvals EXCEPT ![FirstIdx(approvals, stage)] =
                 [@ EXCEPT !.approved = Decided(approved),
                           !.feedback = feedback,
                           !.action = ValidateAction(action)]]
         ELSE Append(approvals,
                     NewApproval(stage, Decided(approved), feedback,
                                 ValidateAction(action)))
    /\ nEvents' = nEvents + 1
    /\ nDecides' = nDecides + 1
    /\ call' = NoCall
    /\ UNCHANGED <<run, artifacts, exec, nExec, nFaults, other, pend, run_updates, tail>>

SubmitApproval(stage, approved, feedback, action) ==
    nDecides < MaxDecides /\ SubmitApprovalStep(stage, approved, feedback, action)

(* Variant: Pause also drops the execution in flight *)
PauseRun_Cancel ==
    /\ run.status = "running"
    /\ run' = [run EXCEPT !.status = "paused"]
    /\ exec' = [pc |-> Idle, mode |-> "none", ws |-> InitialWorkflowState]
    /\ call' = IF exec.pc = Idle THEN NoCall ELSE call
    /\ UNCHANGED <<artifacts, approvals, nEvents, nExec, nDecides, nFaults,
                   other, pend, run_updates, tail>>

PauseRun ==
    /\ run.status = "running"
    /\ run' = [run EXCEPT !.status = "paused"]
    /\ call' = IF exec.pc = Idle THEN NoCall ELSE call
    /\ UNCHANGED <<artifacts, approvals, exec, nEvents, nExec, nDecides, nFaults, other, pend, run_updates, tail>>

(* A request a route answers with an error is on record as the last call,  *)
(* with nothing else in the record.                                        *)
RejectedCall(op) == [NoCall EXCEPT !.op = op]

(* The approval route as a request reaches it: the schema validates the    *)
(* action, the handler validates the stage, and only then is a row         *)
(* written.                                                                *)
SubmitApprovalRequest(stage, approved, feedback, action) ==
    IF stage \in valid_stages /\ ActionAccepted(action)
    THEN SubmitApproval(stage, approved, feedback, action)
    ELSE /\ nDecides < MaxDecides
         /\ nDecides' = nDecides + 1
         /\ call' = RejectedCall("decide_rejected")
         /\ UNCHANGED <<run, artifacts, approvals, exec, nEvents, nExec,
                        nFaults, other, pend, run_updates, tail>>

PauseRunRejected ==
    /\ run.status # "running"
    /\ call' = RejectedCall("pause_rejected")
    /\ UNCHANGED <<run, artifacts, approvals, exec, nEvents, nExec, nDecides,
                   nFaults, other, pend, run_updates, tail>>

StartRunRejected ==
    /\ run.status \notin StartableStatus
    /\ call' = RejectedCall("start_rejected")
    /\ UNCHANGED <<run, artifacts, approvals, exec, nEvents, nExec, nDecides,
                   nFaults, other, pend, run_updates, tail>>

----------------------------------------------------------------------------
Next ==
    \/ StartRun
    \/ ExecuteRun
    \/ \E s \in ArtifactType : NodeEnter(s)
    \/ \E s \in ArtifactType, o \in Outcomes : NodeFinish(s, o)
    \/ \E s \in valid_stages : WaitNode(s)
    \/ \E s \in valid_stages : ConditionalEdge(s)
    \/ \E s \in valid_stages : CheckApprovalRaises(s)
    \/ CompleteNode
    \/ ExecuteRunFinish
    \/ \E f \in FromStages : ContinueRun(f)
    \/ \E f \in FromStages : ContinueRunRaises(f)
    \/ \E s \in valid_stages, d \in Decisions :
          SubmitApproval(s, d.approved, d.feedback, d.action)
    \/ PauseRun

Spec == Init /\ [][Next]_vars

SpecPending == InitPending /\ [][Next]_vars

----------------------------------------------------------------------------
(* submit_approval is a synchronous route and runs in a worker thread: its *)
(* query of the row and its commit are two steps, and another request or   *)
(* the orchestrator may write between them.  pend holds the requests that  *)
(* have queried and not yet committed, each with the row it found (0 when  *)
(* it found none).                                                         *)
SubmitApprovalQuery(stage, approved, feedback, action) ==
    /\ stage \in valid_stages /\ ActionAccepted(action)
    /\ nDecides < MaxInFlight
    /\ pend' = Append(pend, [stage |-> stage, approved |-> approved,
                             feedback |-> feedback,
                             action |-> ValidateAction(action),
                             found |-> IF HasRow(approvals, stage)
                                       THEN FirstIdx(approvals, stage) ELSE 0])
    /\ nDecides' = nDecides + 1
    /\ call' = NoCall
    /\ UNCHANGED <<run, artifacts, approvals, exec, nEvents, nExec, nFaults, other, run_updates, tail>>

SubmitApprovalCommit(k) ==
    /\ k \in 1..Len(pend)
    /\ LET req == pend[k]
       IN  approvals' =
             IF req.found # 0
             THEN [approvals EXCEPT ![req.found] =
                     [@ EXCEPT !.approved = Decided(req.approved),
                               !.feedback = req.feedback,
                               !.action = req.action]]
             ELSE Append(approvals,
                         NewApproval(req.stage, Decided(req.approved),
                                     req.feedback, req.action))
    /\ pend' = [i \in 1..(Len(pend) - 1) |-> IF i < k THEN pend[i] ELSE pend[i + 1]]
    /\ nEvents' = nEvents + 1
    /\ UNCHANGED <<run, artifacts, exec, nExec, nDecides, nFaults, call, other, run_updates, tail>>

NextDecide ==
    \/ StartRun
    \/ ExecuteRun
    \/ \E s \in ArtifactType : NodeEnter(s)
    \/ \E s \in ArtifactType, o \in Outcomes : NodeFinish(s, o)
    \/ \E s \in valid_stages : WaitNode(s)
    \/ \E s \in valid_stages : ConditionalEdge(s)
    \/ \E s \in valid_stages : CheckApprovalRaises(s)
    \/ CompleteNode
    \/ ExecuteRunFinish
    \/ \E f \in FromStages : ContinueRun(f)
    \/ \E f \in FromStages : ContinueRunRaises(f)
    \/ \E s \in valid_stages, d \in ConcurrentDecisions :
          SubmitApprovalQuery(s, d.approved, d.feedback, d.action)
    \/ \E k \in 1..MaxInFlight : SubmitApprovalCommit(k)
    \/ PauseRun

SpecDecide == InitPending /\ [][NextDecide]_vars

----------------------------------------------------------------------------
(* start_run and continue_run take no lock and look at nothing but the     *)
(* run's status: a second execution can be accepted while the first is     *)
(* between two of its steps.  The event loop runs one task at a time;      *)
(* exec is the task that is running or next to run and other the task      *)
(* that is parked, and SwitchTask hands the loop to the other task.        *)
SwitchTask ==
    /\ exec' = other
    /\ other' = exec
    /\ exec # other
    /\ UNCHANGED <<run, artifacts, approvals, nEvents, nExec, nDecides, nFaults,
                   call, pend, run_updates, tail>>

(* Where two executions overlap: a fresh run, and a run suspended at the   *)
(* last gate.                                                              *)
InitOverlap ==
    /\ \E g \in {"pending", "specs"} :
         /\ run = RunAt(g)
         /\ artifacts = ArtifactsAt(g)
         /\ approvals = ApprovalsAt(g)
    /\ exec = [pc |-> Idle, mode |-> "none", ws |-> InitialWorkflowState]
    /\ nEvents = 0
    /\ nExec = 0
    /\ nDecides = 0
    /\ nFaults = 0
    /\ call = NoCall
    /\ other = [pc |-> Idle, mode |-> "none", ws |-> InitialWorkflowState]
    /\ pend = <<>>
    /\ run_updates = <<>>
    /\ tail = [last_index |-> 0, received |-> <<>>]

NextOverlap ==
    \/ StartRun
    \/ ExecuteRun
    \/ \E s \in ArtifactType : NodeEnter(s) /\ nExec' <= MaxOverlapExec
    \/ \E s \in ArtifactType, o \in Outcomes : NodeFinish(s, o)
    \/ \E s \in valid_stages : WaitNode(s)
    \/ \E s \in valid_stages : ConditionalEdge(s)
    \/ \E s \in valid_stages : CheckApprovalRaises(s)
    \/ CompleteNode
    \/ ExecuteRunFinish
    \/ \E f \in FromStages : ContinueRun(f)
    \/ \E f \in FromStages : ContinueRunRaises(f)
    \/ \E s \in valid_stages, d \in ConcurrentDecisions :
          SubmitApproval(s, d.approved, d.feedback, d.action)
    \/ PauseRun
    \/ SwitchTask

SpecOverlap == InitOverlap /\ [][NextOverlap]_vars

----------------------------------------------------------------------------
(* The progress store of progress_emitter.py: run_updates maps a run id to *)
(* the list of its updates and has no entry for a run that never emitted.  *)
(* tail is the event generator of the progress route for ObservedRun: the  *)
(* index it has read up to and the updates it has yielded so far.          *)
RunIds == {1, 2}

ObservedRun == 1

LogOf(updates, run_id) ==
    IF run_id \in DOMAIN updates THEN updates[run_id] ELSE <<>>

Emitted(updates) == Len(LogOf(updates, 1)) + Len(LogOf(updates, 2))

EmitProgress(run_id, stage) ==
    /\ Emitted(run_updates) < MaxEmits
    /\ LET update == [stage |-> stage, message |-> "m",
                      timestamp |-> Emitted(run_updates) + 1]
           known == IF run_id \in DOMAIN run_updates THEN run_updates
                    ELSE (run_id :> <<>>) @@ run_updates
       IN  run_updates' = [known EXCEPT ![run_id] = Append(@, update)]
    /\ UNCHANGED <<run, artifacts, approvals, exec, nEvents, nExec, nDecides,
                   nFaults, call, other, pend, tail>>

(* Variant: the whole list is returned whatever the index *)
GetUpdates_Whole(updates, run_id, from_index) == LogOf(updates, run_id)

GetUpdates(updates, run_id, from_index) ==
    IF run_id \notin DOMAIN updates THEN <<>>
    ELSE SubSeq(updates[run_id], from_index + 1, Len(updates[run_id]))

(* One turn of the polling loop of event_generator *)
TailPoll ==
    /\ LET updates == GetUpdates(run_updates, ObservedRun, tail.last_index)
       IN  tail' = [last_index |-> tail.last_index + Len(updates),
                    received |-> tail.received \o updates]
    /\ UNCHANGED <<run, artifacts, approvals, exec, nEvents, nExec, nDecides,
                   nFaults, call, other, pend, run_updates>>

NextProgress ==
    \/ \E r \in RunIds, st \in {"research", "epics"} : EmitProgress(r, st)
    \/ TailPoll

SpecProgress == InitPending /\ [][NextProgress]_vars

----------------------------------------------------------------------------
(* The approved path: Start on a pending run, executors that answer (with  *)
(* content or with a structured failure) and never raise, and a reviewer   *)
(* who approves every gate that is waiting for a decision and then calls   *)
(* Resume for the gate the run stands at.  The steps are not budgeted      *)
(* here: the path is finite.  The event loop runs every scheduled step and *)
(* the reviewer acts, which is the fairness of SpecLive.                   *)
LiveStart == run.status = "pending" /\ StartRun

LiveDecide(S) ==
    /\ Pending(approvals, S)
    /\ SubmitApprovalStep(S, TRUE, "", "proceed")

LiveResume(S) ==
    /\ run.current_stage = WaitStage(S)
    /\ HasRow(approvals, S) /\ FirstRow(approvals, S).approved = "true"
    /\ ContinueRun(S)

NextLive ==
    \/ LiveStart
    \/ ExecuteRun
    \/ \E s \in ArtifactType : NodeEnterStep(s)
    \/ \E s \in ArtifactType, o \in {"ok", "fail"} : NodeFinish(s, o)
    \/ \E s \in valid_stages : WaitNode(s)
    \/ \E s \in valid_stages : ConditionalEdge(s)
    \/ CompleteNode
    \/ ExecuteRunFinish
    \/ \E S \in valid_stages : LiveDecide(S)
    \/ \E S \in valid_stages : LiveResume(S)

SpecLive == InitPending /\ [][NextLive]_vars /\ WF_vars(NextLive)

(* The same program with the requests the routes refuse *)
NextRoutes ==
    \/ Next
    \/ \E r \in InvalidRequests :
          SubmitApprovalRequest(r.stage, r.approved, r.feedback, r.action)
    \/ PauseRunRejected
    \/ StartRunRejected

SpecRoutes == Init /\ [][NextRoutes]_vars

TypeOK ==
    /\ run.status \in {"pending", "running", "paused", "completed", "failed"}
    /\ Len(artifacts) <= Len(StageOrder) + MaxExec
    /\ nExec <= MaxExec
    /\ nDecides <= MaxDecides
    /\ nFaults <= MaxFaults

----------------------------------------------------------------------------
(* Vocabulary of the properties *)

AtRest == exec.pc = Idle

(* The call on record has returned and no decision arrived since it began, *)
(* nor a pause or another call since it returned.                          *)
StartReturned == AtRest /\ call.op = "start" /\ call.quiet

ResumeReturned(from_stage) ==
    AtRest /\ call.op = "resume" /\ call.from = from_stage /\ call.quiet

OneRow(apps, stage) == Cardinality(RowsOf(apps, stage)) = 1

LastArtifact(arts) == arts[Len(arts)]

----------------------------------------------------------------------------
(* C1 (scenario A): when Start on a pending run has returned, the research *)
(* and epics executors both succeeded and no decision was submitted, the   *)
(* run is paused at the epic-approval wait state (the code's label is      *)
(* waiting_epic_approval), there is exactly one research and exactly one   *)
(* epics artifact, and exactly one approval row for epics, undecided.      *)
C1_ScenarioAHolds ==
    ( /\ StartReturned
      /\ call.pre.status = "pending"
      /\ call.kinds = {}
      /\ nDecides = 0 )
    => /\ run.current_stage = "waiting_epic_approval"
       /\ run.status = "paused"
       /\ CountType(artifacts, "research") = 1
       /\ CountType(artifacts, "epics") = 1
       /\ Len(artifacts) = 2
       /\ OneRow(approvals, "epics")
       /\ FirstRow(approvals, "epics").approved = "unset"

C1_Witness ==
    /\ StartReturned
    /\ call.pre.status = "pending"
    /\ call.kinds = {}
    /\ nDecides = 0
    /\ run.current_stage = "waiting_epic_approval"
    /\ CountType(artifacts, "epics") = 1

----------------------------------------------------------------------------
(* C2 (scenario B): Resume(run, epics) made in the state scenario A leaves *)
(* behind, after Decide(epics, approved, proceed), returns with the run at *)
(* the story-approval wait state, exactly one stories artifact added, the  *)
(* epics row as decided (approved) and a stories row undecided.  Checked   *)
(* for a stories executor that succeeds, fails or raises, the artifact     *)
(* write itself succeeding.                                                *)
ScenarioABefore ==
    /\ call.pre.status = "paused"
    /\ call.pre.stage = "waiting_epic_approval"
    /\ call.pre.narts = 2
    /\ artifacts[1].type = "research" /\ artifacts[1].meta = NoMeta
    /\ artifacts[2].type = "epics" /\ artifacts[2].meta = NoMeta

C2_ScenarioBHolds ==
    ( /\ ResumeReturned("epics")
      /\ ScenarioABefore
      /\ call.pre.row.approved = "true"
      /\ call.pre.row.action = "proceed"
      /\ "savefail" \notin call.kinds )
    => /\ run.current_stage = "waiting_story_approval"
       /\ Len(artifacts) = 3
       /\ artifacts[3].type = "stories"
       /\ OneRow(approvals, "epics")
       /\ FirstRow(approvals, "epics") = call.pre.row
       /\ Pending(approvals, "stories")

C2_Witness ==
    /\ ResumeReturned("epics")
    /\ ScenarioABefore
    /\ call.pre.row.approved = "true"
    /\ call.pre.row.action = "proceed"
    /\ CountType(artifacts, "stories") = 1
    /\ run.current_stage = "waiting_story_approval"

----------------------------------------------------------------------------
(* Resume(run, S) was made on a run paused at S's gate whose approval row  *)
(* for S said approved=false, action=regenerate, and it has returned.      *)
RegenerationReturned(S) ==
    /\ ResumeReturned(S)
    /\ call.pre.status = "paused"
    /\ call.pre.stage = WaitStage(S)
    /\ call.pre.row.approved = "false"
    /\ call.pre.row.action = "regenerate"

OneMoreOf(S) ==
    /\ Len(artifacts) = call.pre.narts + 1
    /\ LastArtifact(artifacts).type = S
    /\ Pending(approvals, S)

----------------------------------------------------------------------------
(* C4: a second Resume(run, fromStage) with nothing in between adds no     *)
(* artifact, writes no new currentStage and changes no status.             *)
C4_ResumeIdempotent ==
    (AtRest /\ call.op = "resume" /\ call.again /\ call.quiet)
    => /\ Len(artifacts) = call.pre.narts
       /\ run.current_stage = call.pre.stage
       /\ run.status = call.pre.status

----------------------------------------------------------------------------
(* C5: the step in which a stage node handles a structured failure of its  *)
(* executor ends with a last artifact of that stage's type whose metadata  *)
(* has fallback=true and the error reason and, for a gated stage, with an  *)
(* undecided approval row for the stage.                                   *)
FallbackPersisted(s) ==
    /\ Len(artifacts) > 0
    /\ LastArtifact(artifacts).type = s
    /\ LastArtifact(artifacts).meta.fallback
    /\ LastArtifact(artifacts).meta.error = exec.ws.error
    /\ LastArtifact(artifacts).meta.error # ""
    /\ s \in valid_stages => Pending(approvals, s)

C5_FailureLeavesFallback ==
    [][\A s \in ArtifactType : NodeFinish(s, "fail") => FallbackPersisted(s)']_vars

C5_Witness ==
    /\ exec.pc = Pc("wait", "stories")
    /\ exec.mode = "resume"
    /\ call.kinds = {"fail"}
    /\ FallbackPersisted("stories")

----------------------------------------------------------------------------
(* C6: when Start has returned and its executors returned structured       *)
(* failures but nothing raised, the run is paused or running and no error  *)
(* message was set.                                                        *)
C6_FailureNotFatal ==
    (StartReturned /\ call.kinds = {"fail"})
    => /\ run.status \in {"paused", "running"}
       /\ run.error_message = ""

----------------------------------------------------------------------------
(* C7: every change of Run.currentStage moves to the next state of the     *)
(* fixed order or loops back from a wait state to its own gated stage.     *)
PipelineOrder ==
    <<"research", "epics", "waiting_epic_approval", "stories",
      "waiting_story_approval", "specs", "waiting_spec_approval", "code",
      "validation", "completed">>

StageStepAllowed(a, b) ==
    \/ a = "" /\ b = "research"
    \/ \E i \in 1..(Len(PipelineOrder) - 1) :
          a = PipelineOrder[i] /\ b = PipelineOrder[i + 1]
    \/ \E S \in valid_stages : a = WaitStage(S) /\ b = S

C7_StageOrder ==
    [][run'.current_stage # run.current_stage
         => StageStepAllowed(run.current_stage, run'.current_stage)]_vars

----------------------------------------------------------------------------
(* C8: Run.status never moves backwards along pending, {running, paused},  *)
(* {completed, failed}, and never from failed to completed.                *)
StatusRank(st) ==
    CASE st = "pending" -> 0
      [] st \in {"running", "paused"} -> 1
      [] OTHER -> 2

C8_StatusMonotonic ==
    [][/\ StatusRank(run.status) <= StatusRank(run'.status)
       /\ ~(run.status = "failed" /\ run'.status = "completed")]_vars

----------------------------------------------------------------------------
(* C9: once a run is completed and the completing call has returned, no    *)
(* later Start or Resume changes its status or currentStage, invokes an    *)
(* executor or appends an artifact.                                        *)
C9_CompletedTerminal ==
    [][(run.status = "completed" /\ AtRest)
         => /\ run'.status = run.status
            /\ run'.current_stage = run.current_stage
            /\ artifacts' = artifacts
            /\ nExec' = nExec]_vars

----------------------------------------------------------------------------
SuspendedAfterPersisting(S) ==
    /\ AtRest /\ call.op # "none" /\ call.quiet
    /\ run.status = "paused"
    /\ run.current_stage = WaitStage(S)
    /\ Len(artifacts) > call.pre.narts
    /\ LastArtifact(artifacts).type = S

----------------------------------------------------------------------------
(* C11: in every reachable state a run whose status is failed has a        *)
(* non-empty error message.                                                *)
C11_FailedHasMessage == run.status = "failed" => run.error_message # ""

C11_Witness ==
    /\ run.status = "failed"
    /\ run.error_message = "agent_error"
    /\ StartReturned

----------------------------------------------------------------------------
(* C12: in every reachable state a run whose status is completed has       *)
(* exactly one artifact of each of the six types.                          *)
C12_CompletedHasOneOfEach ==
    run.status = "completed"
    => \A t \in ArtifactType : CountType(artifacts, t) = 1

----------------------------------------------------------------------------
(* C13: artifacts are append-only: every step leaves the artifact list as  *)
(* it was or extends it, so the list before the step is a prefix of the    *)
(* list after it.                                                          *)
IsPrefix(a, b) == Len(a) <= Len(b) /\ \A i \in 1..Len(a) : a[i] = b[i]

C13_ArtifactsAppendOnly == [][IsPrefix(artifacts, artifacts')]_vars

(* A regeneration and a fallback were both added after the first epics     *)
(* artifact, which is still there as it was written.                       *)
C13_Witness ==
    /\ CountType(artifacts, "epics") >= 2
    /\ artifacts[2] = [type |-> "epics", content |-> Generated(0),
                       meta |-> NoMeta]
    /\ LastArtifact(artifacts).type = "epics"
    /\ LastArtifact(artifacts).meta.fallback

----------------------------------------------------------------------------
(* C14: with every operation atomic, no step leaves two approval rows for  *)
(* one stage, and a Decide for a stage that already has a row leaves the   *)
(* number of rows as it was, writes the submitted approved, feedback and   *)
(* action into that same row and leaves every other row alone.             *)
NoDuplicateRow(apps) ==
    \A s \in valid_stages : Cardinality(RowsOf(apps, s)) <= 1

StoredAction(action) == IF action = "" THEN "proceed" ELSE action

UpdatedInPlace(s, d) ==
    /\ Len(approvals') = Len(approvals)
    /\ \A i \in 1..Len(approvals) :
          approvals'[i] =
            IF i = FirstIdx(approvals, s)
            THEN NewApproval(s, Decided(d.approved), d.feedback,
                             StoredAction(d.action))
            ELSE approvals[i]

C14_OneRowPerStage ==
    [][/\ NoDuplicateRow(approvals')
       /\ \A s \in valid_stages, d \in Decisions :
            (SubmitApproval(s, d.approved, d.feedback, d.action)
               /\ HasRow(approvals, s))
            => UpdatedInPlace(s, d)]_vars

(* The epics row, approved before, was decided again (regenerate), the     *)
(* epics stage was regenerated, and there is still one row per stage.      *)
C14_Witness ==
    /\ nDecides = 1
    /\ Len(approvals) = 3
    /\ approvals[1] = NewApproval("epics", "unset", "fb", "proceed")
    /\ CountType(artifacts, "epics") = 2
    /\ NoDuplicateRow(approvals)

----------------------------------------------------------------------------
(* C17: a Decide whose stage is not epics, stories or specs, or whose      *)
(* action is not one of the three, changes nothing: no approval row, no    *)
(* status or currentStage, no artifact, no progress event, no execution.   *)
C17_InvalidDecideChangesNothing ==
    [][\A r \in InvalidRequests :
         SubmitApprovalRequest(r.stage, r.approved, r.feedback, r.action)
         => UNCHANGED <<run, artifacts, approvals, nEvents, exec, nExec, run_updates, tail>>]_vars

C17_Witness ==
    /\ call.op = "decide_rejected"
    /\ nDecides = 1
    /\ run = RunAt("stories")
    /\ approvals = ApprovalsAt("stories")
    /\ nEvents = 0

----------------------------------------------------------------------------
(* C18: a valid Decide appends exactly one progress event, leaves the run  *)
(* record, the artifacts and the rows of the other stages unchanged,       *)
(* starts no execution, leaves exactly one row changed or added, and the   *)
(* row of its stage then holds the submitted values, an omitted action     *)
(* stored as proceed.                                                      *)
OnlyRowOf(s, d) ==
    /\ HasRow(approvals', s)
    /\ FirstRow(approvals', s) =
         NewApproval(s, Decided(d.approved), d.feedback, StoredAction(d.action))
    /\ \A i \in 1..Len(approvals) :
          approvals[i].stage # s => approvals'[i] = approvals[i]
    /\ Len(approvals') = IF HasRow(approvals, s) THEN Len(approvals)
                         ELSE Len(approvals) + 1

C18_DecideFrame ==
    [][\A s \in valid_stages, d \in Decisions :
         SubmitApproval(s, d.approved, d.feedback, d.action)
         => /\ nEvents' = nEvents + 1
            /\ UNCHANGED <<run, artifacts, exec, nExec, run_updates, tail>>
            /\ OnlyRowOf(s, d)]_vars

C18_Witness ==
    /\ nDecides = 1
    /\ nEvents = 1
    /\ nExec = 0
    /\ AtRest
    /\ run = RunAt("stories")
    /\ artifacts = ArtifactsAt("stories")
    /\ approvals[1] = ApprovalsAt("stories")[1]
    /\ approvals[2] = NewApproval("stories", "false", "fb", "regenerate")

----------------------------------------------------------------------------
(* C19: Pause on a running run sets the status to paused and leaves        *)
(* currentStage, the artifacts, the approvals and the execution in flight  *)
(* as they were; Pause on a run that is not running leaves the run         *)
(* unchanged.                                                              *)
C19_PauseOnlyFlipsStatus ==
    [][/\ PauseRun
          => /\ run.status = "running"
             /\ run' = [run EXCEPT !.status = "paused"]
             /\ UNCHANGED <<artifacts, approvals, exec, nExec, run_updates, tail>>
       /\ PauseRunRejected
          => /\ run.status # "running"
             /\ UNCHANGED <<run, artifacts, approvals, exec, nExec, run_updates, tail>>]_vars

(* The run was paused while its Start execution was still going, and the   *)
(* execution went on to the epics executor.                                *)
C19_Witness ==
    /\ run.status = "paused"
    /\ exec.pc = Pc("exec", "epics")
    /\ exec.mode = "start"
    /\ CountType(artifacts, "research") >= 1

----------------------------------------------------------------------------
(* C20: a Start that is accepted finds the run pending or paused, sets the *)
(* status to running and currentStage to research and schedules the        *)
(* pipeline, which has not run a step yet; a Start on a run that is        *)
(* running, completed or failed leaves status, currentStage, artifacts and *)
(* approvals unchanged and schedules nothing.                              *)
C20_StartGuard ==
    [][/\ StartRun
          => /\ run.status \in {"pending", "paused"}
             /\ run'.status = "running"
             /\ run'.current_stage = "research"
             /\ exec'.pc = Pc("scheduled", "")
             /\ UNCHANGED <<artifacts, approvals, nExec, run_updates, tail>>
       /\ StartRunRejected
          => /\ run.status \in {"running", "completed", "failed"}
             /\ UNCHANGED <<run, artifacts, approvals, exec, nExec, run_updates, tail>>]_vars

C20_Witness ==
    /\ call.op = "start_rejected"
    /\ run.status = "completed"
    /\ run.current_stage = "completed"
    /\ AtRest

----------------------------------------------------------------------------
(* C15: when a Decide for a stage interleaves with another Decide for the  *)
(* stage or with the orchestrator's create-or-reset of its row, no         *)
(* reachable state has two approval rows for one stage.                    *)
C15_OneRowUnderConcurrency == NoDuplicateRow(approvals)

----------------------------------------------------------------------------
(* C16: at most one execution of the run is in flight at any time.         *)
C16_SingleExecution == ~(exec.pc # Idle /\ other.pc # Idle)

----------------------------------------------------------------------------
(* C21: the updates of a run are stored in emission order; an observer     *)
(* that tails with get_updates, advancing its index by the number of       *)
(* updates returned, has received exactly the first last_index updates of  *)
(* its run, in order and once each, has received all of them after each    *)
(* poll, and is not affected by updates emitted for another run.           *)
InEmissionOrder(log) ==
    \A i, j \in 1..Len(log) : i < j => log[i].timestamp < log[j].timestamp

----------------------------------------------------------------------------
(* C22: once Start has been accepted on a pending run, with executors     *)
(* that never raise and a reviewer who approves each gate and resumes it,  *)
(* the run eventually is completed with currentStage completed; and        *)
(* whenever it is completed, the six stages have each left their artifact, *)
(* in the order research, epics, stories, specs, code, validation.         *)
PassedInOrder ==
    /\ Len(artifacts) = Len(StageOrder)
    /\ \A i \in 1..Len(StageOrder) : artifacts[i].type = StageOrder[i]

C22_ApprovedPathCompletes ==
    /\ exec.pc = Pc("scheduled", "")
         ~> (run.status = "completed" /\ run.current_stage = "completed")
    /\ [](run.status = "completed" => PassedInOrder)

C22_Witness ==
    /\ run.status = "completed"
    /\ run.current_stage = "completed"
    /\ PassedInOrder
    /\ nDecides = 3
    /\ AtRest

----------------------------------------------------------------------------
(* Resume(run, S) was made on a run paused at S's gate and has returned *)
ResumeAtGateReturned(S) ==
    /\ ResumeReturned(S)
    /\ call.pre.status = "paused"
    /\ call.pre.stage = WaitStage(S)

(* C23: when Resume(run, S) has returned on a run paused at S's gate whose *)
(* approval row was absent or undecided, no artifact was added, the status *)
(* is paused and currentStage is still S's wait state.                     *)
C23_ResumePendingLeavesPaused ==
    \A S \in valid_stages :
        (ResumeAtGateReturned(S) /\ call.pre.row.approved \in {"absent", "unset"})
        => /\ Len(artifacts) = call.pre.narts
           /\ run.status = "paused"
           /\ run.current_stage = WaitStage(S)

----------------------------------------------------------------------------
(* C24: when Resume(run, S) has returned on a run paused at S's gate whose *)
(* approval row said approved=false, action=reject, no artifact was added, *)
(* the row is as it was decided, and the status is paused.                 *)
C24_RejectIsDeadEndPause ==
    \A S \in valid_stages :
        ( /\ ResumeAtGateReturned(S)
          /\ call.pre.row.approved = "false"
          /\ call.pre.row.action = "reject" )
        => /\ Len(artifacts) = call.pre.narts
           /\ FirstRow(approvals, S) = call.pre.row
           /\ run.status = "paused"

----------------------------------------------------------------------------
(* C25: in the Start path, the conditional edge after S's wait node sends  *)
(* the execution back into S's node only when S's approval row carries     *)
(* action=regenerate; in particular a row decided approved=false,          *)
(* action=reject while the execution was in flight does not.               *)
C25_StartPathRejectSuspends ==
    [][\A s \in valid_stages :
         ( /\ ConditionalEdge(s)
           /\ exec.mode = "start"
           /\ HasRow(approvals, s)
           /\ FirstRow(approvals, s).action # "regenerate" )
         => exec'.pc # Pc("enter", s)]_vars

----------------------------------------------------------------------------
(* C26: a Resume(run, S) that finds S's approval row with approved=true    *)
(* enters the node of the stage after S, whatever the row's action is.     *)
C26_ApprovedAlwaysAdvances ==
    [][\A S \in valid_stages :
         ( /\ ContinueRun(S)
           /\ HasRow(approvals, S)
           /\ FirstRow(approvals, S).approved = "true" )
         => exec'.pc = Pc("enter", NextStage(S))]_vars

----------------------------------------------------------------------------
(* C27: every step in which the node of a gated stage S persists an        *)
(* artifact (generated, or a fallback after a failure) ends with S's       *)
(* approval row undecided, with action=proceed, and with the feedback text *)
(* the row had before the step (none if there was no row), also when the   *)
(* row had been decided before S ran for the first time.                   *)
FeedbackOf(apps, s) == IF HasRow(apps, s) THEN FirstRow(apps, s).feedback ELSE ""

C27_RowResetAfterPersisting ==
    [][\A s \in valid_stages, o \in Outcomes :
         (NodeFinish(s, o) /\ Len(artifacts') > Len(artifacts))
         => /\ Pending(approvals', s)
            /\ FirstRow(approvals', s).action = "proceed"
            /\ FirstRow(approvals', s).feedback = FeedbackOf(approvals, s)
            /\ OneRow(approvals', s)]_vars

(* The epics row was decided with feedback while research was running, and *)
(* the first execution of the epics node has just persisted its artifact.  *)
C27_Witness ==
    /\ exec.pc = Pc("wait", "epics")
    /\ exec.mode = "start"
    /\ CountType(artifacts, "epics") = 1
    /\ LastArtifact(artifacts).type = "epics"
    /\ nDecides = 1
    /\ FirstRow(approvals, "epics") = NewApproval("epics", "unset", "fb", "proceed")

----------------------------------------------------------------------------
(* C28: when a Start or a Resume during which a stage executor raised has  *)
(* returned, the run is failed and carries an error message.              *)
C28_RaiseFailsRun ==
    ( /\ AtRest
      /\ call.op \in {"start", "resume"}
      /\ call.quiet
      /\ "raise" \in call.kinds )
    => /\ run.status = "failed"
       /\ run.error_message # ""

----------------------------------------------------------------------------
(* C29: when a Start or a Resume during which an artifact write raised is  *)
(* over, the call ended by raising to its caller and the run is failed.    *)
C29_WriteFailureEscalates ==
    (AtRest /\ call.op # "none" /\ call.quiet /\ "savefail" \in call.kinds)
    => /\ call.op = "raised"
       /\ run.status = "failed"

----------------------------------------------------------------------------
(* C30: a gated stage node that finds its approval row with                *)
(* action=regenerate, with or without feedback text, invokes its executor  *)
(* with the stored feedback and the stage's regeneration counter of this   *)
(* session plus one; any other node invocation passes empty feedback and   *)
(* counter 0.                                                              *)
C30_RegenerationInputs ==
    [][\A s \in valid_stages :
         NodeEnter(s)
         => IF HasRow(approvals, s) /\ FirstRow(approvals, s).action = "regenerate"
            THEN /\ exec'.ws.feedback = FirstRow(approvals, s).feedback
                 /\ exec'.ws.regeneration_count = exec.ws.regen[s] + 1
            ELSE /\ exec'.ws.feedback = ""
                 /\ exec'.ws.regeneration_count = 0]_vars

----------------------------------------------------------------------------
(* The program with a reviewer who only ever asks for regenerations, up to *)
(* MaxRegenerations times, at any moment; executors succeed or return a    *)
(* structured failure.                                                     *)
MaxRegenerations == 2

RegenerateDecide(S) ==
    /\ nDecides < MaxRegenerations
    /\ SubmitApprovalStep(S, FALSE, "fb", "regenerate")

NextRegen ==
    \/ StartRun
    \/ ExecuteRun
    \/ \E s \in ArtifactType : NodeEnter(s)
    \/ \E s \in ArtifactType, o \in {"ok", "fail"} : NodeFinish(s, o)
    \/ \E s \in valid_stages : WaitNode(s)
    \/ \E s \in valid_stages : ConditionalEdge(s)
    \/ ExecuteRunFinish
    \/ \E f \in FromStages : ContinueRun(f)
    \/ \E S \in valid_stages : RegenerateDecide(S)

SpecRegen == Init /\ [][NextRegen]_vars

(* C31: every Resume that executes something starts from a state whose     *)
(* three regeneration counters are 0, and a gated stage node entered in a  *)
(* Resume as a regeneration (row with action=regenerate and feedback)      *)
(* passes counter 1 to its executor, on the first regeneration and on any  *)
(* later one.                                                              *)
C31_ResumeCounterIsOne ==
    [][ /\ \A f \in FromStages :
             (ContinueRun(f) /\ exec'.pc # Idle)
             => \A s \in valid_stages : exec'.ws.regen[s] = 0
        /\ \A s \in valid_stages :
             (NodeEnter(s) /\ exec.mode = "resume" /\ IsRegeneration(approvals, s))
             => /\ exec'.ws.regeneration_count = 1
                /\ exec'.ws.feedback = FirstRow(approvals, s).feedback ]_vars

(* The epics executor is running for the second Resume-driven regeneration *)
C31_Witness ==
    /\ exec.pc = Pc("exec", "epics")
    /\ exec.mode = "resume"
    /\ exec.ws.regeneration_count = 1
    /\ exec.ws.feedback = "fb"
    /\ CountType(artifacts, "epics") = 2
    /\ nExec = 2
    /\ nDecides = 2

----------------------------------------------------------------------------
(* C32 as stated: the state a Resume rebuilds holds, for every type, the   *)
(* content of the last artifact of that type, and whenever a node runs in  *)
(* a Resume the prerequisite content it hands to its executor is the       *)
(* content of the last artifact of the prerequisite type.                  *)
MostRecent(arts, type) ==
    IF CountType(arts, type) = 0 THEN NoContent
    ELSE LET last == CHOOSE i \in 1..Len(arts) :
                       /\ arts[i].type = type
                       /\ \A j \in (i + 1)..Len(arts) : arts[j].type # type
         IN  arts[last].content

RebuiltFromLatest ==
    \A f \in FromStages :
        (ContinueRun(f) /\ exec'.pc # Idle)
        => \A t \in ArtifactType :
               exec'.ws.content[t] = MostRecent(artifacts, t)

InputIsLatest(s) ==
    ExecutorInput(exec'.ws, s) = MostRecent(artifacts, Prerequisite(s))

----------------------------------------------------------------------------
(* C33: whenever the node of stories, specs, code or validation invokes    *)
(* its executor, an artifact of the prerequisite type exists and the       *)
(* content handed to the executor is not empty.                            *)
C33_PrerequisiteExists ==
    [][\A s \in {"stories", "specs", "code", "validation"} :
         NodeEnter(s)
         => /\ CountType(artifacts, Prerequisite(s)) > 0
            /\ ExecutorInput(exec'.ws, s) # NoContent]_vars

----------------------------------------------------------------------------
(* C34 as stated: the step in which a stage node reaches the call of its   *)
(* executor has committed the stage's name as Run.currentStage, for each   *)
(* of the six stages; and whenever the executor of stage s is running,     *)
(* Run.currentStage is s.                                                  *)
CommittedBeforeInvoked ==
    \A s \in ArtifactType :
        NodeEnter(s) => (run'.current_stage = s /\ exec'.pc = Pc("exec", s))

----------------------------------------------------------------------------
(* C35: a stage node calls its executor once and then leaves the stage,    *)
(* adding at most one artifact (of the stage's type) whatever the          *)
(* executor's outcome; and an execution in flight goes back to the node of *)
(* the stage it is at only when that stage's approval row carries          *)
(* action=regenerate.                                                      *)
OneInvocationOneArtifact ==
    \A s \in ArtifactType, o \in Outcomes :
        NodeFinish(s, o)
        => /\ exec'.pc \notin {Pc("enter", s), Pc("exec", s)}
           /\ Len(artifacts') <= Len(artifacts) + 1
           /\ Len(artifacts') = Len(artifacts) + 1
                => LastArtifact(artifacts').type = s

BackOnlyOnRegenerate ==
    \A s \in ArtifactType :
        (exec.pc.s = s /\ exec.pc.p # "enter" /\ exec'.pc = Pc("enter", s))
        => /\ HasRow(approvals, s)
           /\ FirstRow(approvals, s).action = "regenerate"

C35_NoAutomaticRetry ==
    [][OneInvocationOneArtifact /\ BackOnlyOnRegenerate]_vars

----------------------------------------------------------------------------
(* C36: every approval row is a row of epics, stories or specs.            *)
C36_RowsOnlyForGatedStages ==
    \A i \in 1..Len(approvals) : approvals[i].stage \in valid_stages

(* Research has run and a decision for a stage without a gate was refused: *)
(* neither left a row.                                                     *)
C36_Witness ==
    /\ call.op = "decide_rejected"
    /\ exec.pc = Pc("enter", "epics")
    /\ CountType(artifacts, "research") = 1
    /\ nDecides = 1
    /\ approvals = <<>>

----------------------------------------------------------------------------
(* C37: Resume(run, S) enters the node of S or of the stage after S or     *)
(* nothing; in a Resume the node of a gated stage is followed by that      *)
(* stage's wait node, and the wait node ends the call with the run paused  *)
(* at the wait state; the code node is followed by validation and by the   *)
(* complete node, which ends the call with the run completed; and a Resume *)
(* never stands at the conditional edge of a gate.                         *)
ResumeEntersOneStage ==
    \A S \in FromStages :
        ContinueRun(S)
        => exec'.pc \in {Idle, Pc("enter", S), Pc("enter", NextStage(S))}

ResumeStopsAtGate ==
    /\ \A s \in valid_stages, o \in Outcomes :
          NodeFinish(s, o) => exec'.pc = Pc("wait", s)
    /\ \A s \in valid_stages :
          WaitNode(s) => /\ exec'.pc = Idle
                         /\ run'.status = "paused"
                         /\ run'.current_stage = WaitStage(s)
    /\ \A o \in Outcomes :
          /\ NodeFinish("code", o) => exec'.pc = Pc("enter", "validation")
          /\ NodeFinish("validation", o) => exec'.pc = Pc("complete", "")
    /\ CompleteNode => (exec'.pc = Idle /\ run'.status = "completed")
    /\ exec'.pc.p # "check"

C37_ResumePassesOneGate ==
    [][ /\ ResumeEntersOneStage
        /\ exec.mode = "resume" => ResumeStopsAtGate ]_vars

(* Resume(run, stories) has returned: it found stories approved, ran the   *)
(* specs node and stopped at the specs gate, although a decision for specs *)
(* (its feedback is still in the row) had been submitted before the call.  *)
C37_Witness ==
    /\ ResumeReturned("stories")
    /\ call.pre.row = NewApproval("stories", "true", "", "proceed")
    /\ nDecides = 1
    /\ nExec = 1
    /\ Len(artifacts) = call.pre.narts + 1
    /\ LastArtifact(artifacts).type = "specs"
    /\ run.status = "paused"
    /\ run.current_stage = "waiting_spec_approval"
    /\ FirstRow(approvals, "specs") = NewApproval("specs", "unset", "fb", "proceed")

----------------------------------------------------------------------------
(* C38: a gated stage node that runs while no artifact of its type exists  *)
(* invokes its executor with regeneration counter 0 and empty feedback.    *)
C38_FirstExecutionIsNotRegeneration ==
    [][\A s \in valid_stages :
         (NodeEnter(s) /\ CountType(artifacts, s) = 0)
         => /\ exec'.ws.regeneration_count = 0
            /\ exec'.ws.feedback = ""]_vars

----------------------------------------------------------------------------
(* C39: with one execution at a time, a run whose status is completed has  *)
(* currentStage completed, its completion time set, and at least one code  *)
(* and one validation artifact.                                            *)
C39_CompletedIsConsistent ==
    run.status = "completed"
    => /\ run.current_stage = "completed"
       /\ run.completed_at
       /\ CountType(artifacts, "code") >= 1
       /\ CountType(artifacts, "validation") >= 1

====
